---- MODULE Spec2Model ----
(***************************************************************************)
(* A model of devbox-cli: the retry decorator (devbox/retry.py) and the    *)
(* instance lifecycle operations built on it (devbox/ec2.py).              *)
(*                                                                         *)
(* One run of the model is one call of one entry point: the retry-wrapped  *)
(* generic function, start_instance, stop_instance, get_instance_status,   *)
(* reboot_instance, or a series of authorize_ingress calls; a lifecycle    *)
(* function that has returned is followed by the echo of its command       *)
(* (devbox/cli.py).  The cloud                                             *)
(* provider is the environment: it owns the instance state, its public IP  *)
(* and the ingress rules, and moves on its own between the program's       *)
(* steps.  Every provider call, sleep and report the program makes is      *)
(* appended to log, so orderings and counts are state predicates.          *)
(***************************************************************************)
EXTENDS Integers, Sequences, FiniteSets, TLC

VARIABLES
  cmd,            \* the entry point this run calls
  pc,             \* where the program is
  log,            \* provider calls, sleeps and reports made so far, in order
  result,         \* what the entry point returned or raised
  delays,         \* retry: the delay schedule
  idx,            \* retry: position in chain(delays), = number of the attempt
  problems,       \* retry: the failures accumulated so far
  response,       \* provider: what describe_instances answers for the name
  instState,      \* provider: state of the instance
  publicIp,       \* provider: its public IP, None while it has none
  rules,          \* provider: the ingress rules of the security group
  instance_id,    \* local of the lifecycle functions
  public_ip,      \* local of get_instance_status
  my_ip,          \* the caller's IP (ssh_ingress_ip)
  security_group, \* the security group handed to authorize_ingress
  calls,          \* authorizer run: calls of authorize_ingress returned so far
  output          \* what the command has echoed, <<>> while it has echoed nothing

vars == <<cmd, pc, log, result, delays, idx, problems,
          response, instState, publicIp, rules,
          instance_id, public_ip, my_ip, security_group, calls, output>>

retryVars == <<delays, idx, problems>>
providerVars == <<response, instState, publicIp, rules>>
localVars == <<instance_id, public_ip, my_ip, security_group, calls, output>>

(* ------------------------------ bounds --------------------------------- *)

\* longest delay schedule tried for the generic retry-wrapped function
MaxDelays == 2
\* delays of the generic schedules are drawn from 0..MaxDelay seconds
MaxDelay == 1
\* number of authorize_ingress calls made in a row by the authorizer run
MaxAuthCalls == 2

(* ------------------------------ values --------------------------------- *)

None == "None"

InstanceIds == <<"i-0123", "i-0456">>
PublicIpValue == "203.0.113.5"
CallerIps == {"198.51.100.7", "198.51.100.8"}
GroupId == "sg-1"
States == {"pending", "running", "stopping", "stopped"}

Ev(op, arg) == [op |-> op, arg |-> arg]

RECURSIVE SeqsUpTo(_, _)
SeqsUpTo(S, n) ==
  IF n = 0 THEN {<<>>}
  ELSE LET shorter == SeqsUpTo(S, n - 1)
       IN shorter \cup {Append(s, x) : s \in {t \in shorter : Len(t) = n - 1}, x \in S}

\* the events of l whose op is o, in order
SelectOp(l, o) == SelectSeq(l, LAMBDA e : e.op = o)

Ops(l) == {l[i].op : i \in 1..Len(l)}

(* --------------------------- devbox/retry.py --------------------------- *)

\* retry(delays=(0, 1, 2, 4, 8, 16), ...)
default_delays == <<0, 1, 2, 4, 8, 16>>

\* faulty variant: the schedule is consumed from its second delay on
chain_shifted(d) ==
  [i \in 1..(Len(d) + 1) |-> IF i < Len(d) THEN d[i + 1] ELSE -1]

\* itertools.chain(delays, [None]): the delay at position i, None at the end
chain(d) == [i \in 1..(Len(d) + 1) |-> IF i <= Len(d) THEN d[i] ELSE -1]
\* faulty variant: the loop ends with the last delay, without the final attempt
delay_is_None_early(d, i) == i >= Len(d)

\* delay is None: the loop is at the None that chain() added
delay_is_None(d, i) == i = Len(d) + 1

\* faulty variant: the code is compared with 401, so a 403 is retried
is_403_wrong_code(problem) == problem.hasCode /\ problem.code = 401

\* hasattr(problem, "code") and problem.code == 403
is_403(problem) == problem.hasCode /\ problem.code = 403

\* what one call of the generic wrapped function can do: return a value,
\* raise something the except clause catches (with or without a code
\* attribute), or raise something it does not catch
GenericOutcomes(n) ==
  {[kind |-> "return", value |-> v] : v \in {"v1", "v2"}} \cup
  {[kind |-> "raise",
    value |-> [n |-> n, caught |-> c, hasCode |-> h.has, code |-> h.code]] :
       c \in BOOLEAN,
       h \in {[has |-> FALSE, code |-> 0], [has |-> TRUE, code |-> 403],
              [has |-> TRUE, code |-> 500]}}

\* faulty variant: the attribute is returned without the None check
get_instance_public_ip_unchecked(ip, n) == [kind |-> "return", value |-> ip]

\* get_instance_public_ip: read the attribute, raise Exception on None
get_instance_public_ip(ip, n) ==
  IF ip = None
    THEN [kind |-> "raise",
          value |-> [n |-> n, caught |-> TRUE, hasCode |-> FALSE, code |-> 0]]
    ELSE [kind |-> "return", value |-> ip]


Returned(v) == [kind |-> "return", value |-> v]
Raised(e) == [kind |-> "raise", value |-> e]

\* the wrapper returns v to its caller: the generic run ends with v,
\* start_instance returns (instance_id, public_ip) (ec2.py:107-108),
\* get_instance_status goes on to read the state (ec2.py:136-137)
WrappedReturns(v) ==
  CASE cmd = "retry"  -> pc' = "done" /\ result' = Returned(v) /\ public_ip' = public_ip
    [] cmd = "start"  -> pc' = "done" /\ result' = Returned(<<instance_id, v>>)
                         /\ public_ip' = v
    [] cmd = "status" -> pc' = "status_return" /\ result' = result /\ public_ip' = v

\* an exception leaves the entry point: nothing in ec2.py or cli.py catches it
Raises(e) == pc' = "raised" /\ result' = Raised(e)

\* faulty variant: the terminal report names only the last failure
report_final_last(ps) ==
  Ev("report", [final |-> TRUE, problems |-> <<ps[Len(ps)]>>, delay |-> -1])

\* report("retry failed definitely: {}".format(problems)), retry.py:22
report_final(ps) == Ev("report", [final |-> TRUE, problems |-> ps, delay |-> -1])

\* report("retry failed: {} -- delaying for {}s".format(problem, delay)), retry.py:25
report_retry(p, d) == Ev("report", [final |-> FALSE, problems |-> <<p>>, delay |-> d])

\* one turn of the for loop up to the sleep: retry.py:14-25
wrapped_attempt ==
  /\ pc = "wrapped"
  /\ \E out \in (IF cmd = "retry" THEN GenericOutcomes(idx)
                                   ELSE {get_instance_public_ip(publicIp, idx)}) :
       LET called == Append(log, IF cmd = "retry" THEN Ev("call", out)
                                                  ELSE Ev("ip_fetch", publicIp))
           problem == out.value
       IN IF out.kind = "return"
            THEN /\ WrappedReturns(out.value)
                 /\ log' = called
                 /\ problems' = problems
          ELSE IF ~problem.caught \/ is_403(problem)
            THEN /\ Raises(problem)
                 /\ log' = called
                 /\ UNCHANGED <<problems, public_ip>>
          ELSE /\ problems' = Append(problems, problem)
               /\ IF delay_is_None(delays, idx)
                    THEN /\ log' = Append(called, report_final(problems'))
                         /\ Raises(problem)
                    ELSE /\ log' = Append(called, report_retry(problem, chain(delays)[idx]))
                         /\ pc' = "sleep"
                         /\ result' = result
               /\ public_ip' = public_ip
  /\ UNCHANGED <<cmd, delays, idx, providerVars, instance_id, my_ip, security_group,
                 calls, output>>

\* faulty variant: the loop does not move on to the next delay
wrapped_sleep_same_delay ==
  /\ pc = "sleep"
  /\ log' = Append(log, Ev("sleep", chain(delays)[idx]))
  /\ pc' = "wrapped"
  /\ UNCHANGED <<cmd, result, delays, idx, problems, providerVars, localVars>>

\* time.sleep(delay), then the next turn of the loop: retry.py:26, 14
wrapped_sleep ==
  /\ pc = "sleep"
  /\ log' = Append(log, Ev("sleep", chain(delays)[idx]))
  /\ idx' = idx + 1
  /\ pc' = "wrapped"
  /\ UNCHANGED <<cmd, result, delays, problems, providerVars, localVars>>

(* ---------------------------- devbox/ec2.py ---------------------------- *)

\* faulty variant: a resource handle is returned also when there is no id
get_ec2_instance_resource_unchecked(id) == IF id = None THEN "i-None" ELSE id

\* boto3_resource.Instance(instance_id): the resource handle of an id; with
\* no id the constructor raises the ValueError "Required parameter id not
\* set", which get_ec2_instance_resource turns into None
get_ec2_instance_resource(id) == IF id = None THEN None ELSE id

\* the locator: a failed query, no reservation or several reservations
\* give None, one reservation gives the id of its first instance
get_ec2_instance_id_by_name(resp) ==
  IF resp.err THEN None
  ELSE IF resp.Reservations = <<>> THEN None
  ELSE IF Len(resp.Reservations) > 1 THEN None
  ELSE resp.Reservations[1][1]

\* faulty variant: the permission is for every address, not for ip/32
ip_permissions_open(ip) ==
  [IpProtocol |-> "tcp", FromPort |-> 22, ToPort |-> 22, CidrIp |-> <<"0.0.0.0", 0>>]

\* the permission authorize_ingress asks for: tcp 22-22 from ip/32
ip_permissions(ip) ==
  [IpProtocol |-> "tcp", FromPort |-> 22, ToPort |-> 22, CidrIp |-> <<ip, 32>>]

Duplicate == "InvalidPermission.Duplicate"
OtherError == "UnauthorizedOperation"

\* the provider's answers to security_group.authorize_ingress: the rule is
\* added, or a rule that is already there is refused as a duplicate; any
\* call can also be refused with another error
provider_authorize_ingress(rs, perm) ==
  (IF \E i \in 1..Len(rs) : rs[i] = perm
     THEN {[reply |-> Duplicate, rules |-> rs]}
     ELSE {[reply |-> "ok", rules |-> Append(rs, perm)]})
  \cup {[reply |-> OtherError, rules |-> rs]}

\* faulty variant: the duplicate signal is raised like any other error
authorize_ingress_raises_duplicate(sg, ip, rs) ==
  IF sg = None
    THEN {[out |-> Returned(None), rules |-> rs, events |-> <<>>]}
    ELSE {[out |-> IF a.reply = "ok" THEN Returned("response")
                   ELSE Raised([type |-> "ClientError", errcode |-> a.reply]),
           rules |-> a.rules,
           events |-> <<Ev("authorize_ingress",
                           [group |-> sg, perm |-> ip_permissions(ip),
                            reply |-> a.reply])>>] :
            a \in provider_authorize_ingress(rs, ip_permissions(ip))}

\* faulty variant: every provider error is swallowed
authorize_ingress_swallows_all(sg, ip, rs) ==
  IF sg = None
    THEN {[out |-> Returned(None), rules |-> rs, events |-> <<>>]}
    ELSE {[out |-> IF a.reply = "ok" THEN Returned("response") ELSE Returned(None),
           rules |-> a.rules,
           events |-> <<Ev("authorize_ingress",
                           [group |-> sg, perm |-> ip_permissions(ip),
                            reply |-> a.reply])>>] :
            a \in provider_authorize_ingress(rs, ip_permissions(ip))}

\* faulty variant: no None check, so the call on a missing security group
\* fails with an AttributeError
authorize_ingress_no_none_check(sg, ip, rs) ==
  IF sg = None
    THEN {[out |-> Raised([type |-> "AttributeError", errcode |-> "authorize_ingress"]),
           rules |-> rs, events |-> <<>>]}
    ELSE {[out |-> IF a.reply = "ok" THEN Returned("response")
                   ELSE IF a.reply = Duplicate THEN Returned(None)
                   ELSE Raised([type |-> "ClientError", errcode |-> a.reply]),
           rules |-> a.rules,
           events |-> <<Ev("authorize_ingress",
                           [group |-> sg, perm |-> ip_permissions(ip),
                            reply |-> a.reply])>>] :
            a \in provider_authorize_ingress(rs, ip_permissions(ip))}

\* authorize_ingress(security_group, ssh_ingress_ip): the outcomes of one
\* call, each with the rules it leaves and the provider call it made
authorize_ingress(sg, ip, rs) ==
  IF sg = None
    THEN {[out |-> Returned(None), rules |-> rs, events |-> <<>>]}
    ELSE {[out |-> IF a.reply = "ok" THEN Returned("response")
                   ELSE IF a.reply = Duplicate THEN Returned(None)
                   ELSE Raised([type |-> "ClientError", errcode |-> a.reply]),
           rules |-> a.rules,
           events |-> <<Ev("authorize_ingress",
                           [group |-> sg, perm |-> ip_permissions(ip),
                            reply |-> a.reply])>>] :
            a \in provider_authorize_ingress(rs, ip_permissions(ip))}

\* the first lines of the four lifecycle functions: locate the instance by
\* name, get its resource, return early when there is none
Resolve(next, none) ==
  LET id == get_ec2_instance_id_by_name(response)
      instance == get_ec2_instance_resource(id)
  IN /\ log' = Append(log, Ev("describe_instances", response.err))
     /\ instance_id' = id
     /\ IF instance = None
          THEN pc' = "done" /\ result' = Returned(none)
          ELSE pc' = next /\ result' = result
     /\ UNCHANGED <<cmd, retryVars, providerVars, public_ip, my_ip, security_group,
                    calls, output>>

\* an instance command (start, stop, reboot) the provider refuses
ClientError == [type |-> "ClientError", errcode |-> "IncorrectInstanceState"]
WaiterError == [type |-> "WaiterError", errcode |-> "Max attempts exceeded"]

\* start_instance, ec2.py:92-96
start_instance_resolve == pc = "start_instance" /\ Resolve("instance.start", <<None, None>>)

\* instance.start(), ec2.py:97-98
start_instance_start ==
  /\ pc = "instance.start"
  /\ log' = Append(log, Ev("start", instance_id))
  /\ \/ /\ instState # "stopping"
        /\ instState' = IF instState = "stopped" THEN "pending" ELSE instState
        /\ pc' = "wait_until_running"
        /\ result' = result
     \/ /\ Raises(ClientError)
        /\ instState' = instState
  /\ UNCHANGED <<cmd, retryVars, response, publicIp, rules, localVars>>

\* instance.wait_until_running(), ec2.py:99-100: returns once the provider
\* reports running, or gives up with a WaiterError
start_instance_wait ==
  /\ pc = "wait_until_running"
  /\ \/ /\ instState = "running"
        /\ log' = Append(log, Ev("wait_until_running", instance_id))
        /\ pc' = "authorize"
        /\ result' = result
     \/ /\ instState # "running"
        /\ log' = log
        /\ Raises(WaiterError)
  /\ UNCHANGED <<cmd, retryVars, providerVars, localVars>>

\* faulty variant: start_instance goes for the public IP without authorizing
start_instance_authorize_skipped ==
  /\ pc = "authorize"
  /\ security_group' = GroupId
  /\ pc' = "wrapped"
  /\ UNCHANGED <<cmd, log, result, retryVars, providerVars,
                 instance_id, public_ip, my_ip, calls, output>>

\* faulty variant: when the authorizer raises, start_instance stops the
\* instance again before it lets the error out
start_instance_authorize_compensates ==
  /\ pc = "authorize"
  /\ security_group' = GroupId
  /\ \E a \in authorize_ingress(GroupId, my_ip, rules) :
       /\ rules' = a.rules
       /\ IF a.out.kind = "return"
            THEN pc' = "wrapped" /\ result' = result /\ log' = log \o a.events
            ELSE /\ pc' = "raised"
                 /\ result' = a.out
                 /\ log' = (log \o a.events) \o <<Ev("stop", instance_id)>>
  /\ UNCHANGED <<cmd, retryVars, response, instState, publicIp,
                 instance_id, public_ip, my_ip, calls, output>>

\* get_security_group and authorize_ingress, ec2.py:101-106, then on to
\* the retry-wrapped get_instance_public_ip of ec2.py:107
start_instance_authorize ==
  /\ pc = "authorize"
  /\ security_group' = GroupId
  /\ \E a \in authorize_ingress(GroupId, my_ip, rules) :
       /\ log' = log \o a.events
       /\ rules' = a.rules
       /\ IF a.out.kind = "return"
            THEN pc' = "wrapped" /\ result' = result
            ELSE pc' = "raised" /\ result' = a.out
  /\ UNCHANGED <<cmd, retryVars, response, instState, publicIp,
                 instance_id, public_ip, my_ip, calls, output>>

\* stop_instance, ec2.py:113-117
stop_instance_resolve == pc = "stop_instance" /\ Resolve("instance.stop", None)

\* instance.stop(), ec2.py:118-119
stop_instance_stop ==
  /\ pc = "instance.stop"
  /\ log' = Append(log, Ev("stop", instance_id))
  /\ \/ /\ instState # "pending"
        /\ instState' = IF instState = "running" THEN "stopping" ELSE instState
        /\ publicIp' = IF instState = "running" THEN None ELSE publicIp
        /\ pc' = "wait_until_stopped"
        /\ result' = result
     \/ /\ Raises(ClientError)
        /\ UNCHANGED <<instState, publicIp>>
  /\ UNCHANGED <<cmd, retryVars, response, rules, localVars>>

\* faulty variant: stop_instance returns without waiting for stopped
stop_instance_wait_skipped ==
  /\ pc = "wait_until_stopped"
  /\ pc' = "done"
  /\ result' = Returned(instance_id)
  /\ UNCHANGED <<cmd, log, retryVars, providerVars, localVars>>

\* instance.wait_until_stopped() and the return, ec2.py:120-122
stop_instance_wait ==
  /\ pc = "wait_until_stopped"
  /\ \/ /\ instState = "stopped"
        /\ log' = Append(log, Ev("wait_until_stopped", instance_id))
        /\ pc' = "done"
        /\ result' = Returned(instance_id)
     \/ /\ instState # "stopped"
        /\ log' = log
        /\ Raises(WaiterError)
  /\ UNCHANGED <<cmd, retryVars, providerVars, localVars>>

\* get_instance_status, ec2.py:130-133
get_instance_status_resolve ==
  pc = "get_instance_status" /\ Resolve("status_state", <<None, None>>)

\* faulty variant: the check looks for the wrong state name
is_stopped_wrong_name(state) == state = "stopping"

\* instance.state["Name"] == "stopped", ec2.py:134
is_stopped(state) == state = "stopped"

\* the stopped check, ec2.py:134-135, then on to get_instance_public_ip
get_instance_status_state ==
  /\ pc = "status_state"
  /\ log' = Append(log, Ev("state", instState))
  /\ IF is_stopped(instState)
       THEN pc' = "done" /\ result' = Returned(<<"stopped", "0.0.0.0">>)
       ELSE pc' = "wrapped" /\ result' = result
  /\ UNCHANGED <<cmd, retryVars, providerVars, localVars>>

\* return instance.state["Name"], public_ip: ec2.py:137
get_instance_status_return ==
  /\ pc = "status_return"
  /\ log' = Append(log, Ev("state", instState))
  /\ pc' = "done"
  /\ result' = Returned(<<instState, public_ip>>)
  /\ UNCHANGED <<cmd, retryVars, providerVars, localVars>>

\* reboot_instance, ec2.py:142-146
reboot_instance_resolve == pc = "reboot_instance" /\ Resolve("instance.reboot", None)

\* faulty variant: reboot_instance waits for running before it returns
reboot_instance_reboot_waits ==
  /\ pc = "instance.reboot"
  /\ instState = "running"
  /\ log' = log \o <<Ev("reboot", instance_id), Ev("wait_until_running", instance_id)>>
  /\ pc' = "done"
  /\ result' = Returned(instance_id)
  /\ UNCHANGED <<cmd, retryVars, providerVars, localVars>>

\* instance.reboot() and the return, ec2.py:147-149
reboot_instance_reboot ==
  /\ pc = "instance.reboot"
  /\ log' = Append(log, Ev("reboot", instance_id))
  /\ \/ pc' = "done" /\ result' = Returned(instance_id)
     \/ Raises(ClientError)
  /\ UNCHANGED <<cmd, retryVars, providerVars, localVars>>

\* the authorizer called on its own, MaxAuthCalls times with the same
\* security group and IP: ec2.py:152-184
authorize_ingress_call ==
  /\ pc = "authorize_ingress"
  /\ calls < MaxAuthCalls
  /\ \E a \in authorize_ingress(security_group, my_ip, rules) :
       /\ log' = log \o a.events
       /\ rules' = a.rules
       /\ result' = a.out
       /\ IF a.out.kind = "return"
            THEN /\ calls' = calls + 1
                 /\ pc' = IF calls + 1 = MaxAuthCalls THEN "done" ELSE pc
            ELSE /\ calls' = calls
                 /\ pc' = "raised"
  /\ UNCHANGED <<cmd, retryVars, response, instState, publicIp,
                 instance_id, public_ip, my_ip, security_group, output>>

(* ---------------------------- devbox/cli.py ---------------------------- *)

\* the --instance-name option, "devbox" by default
instance_name == "devbox"

\* typer.echo(message) once the ec2 function has returned; message is the
\* f-string in pieces, a None formatted as the text None
Echo(c, message) ==
  /\ cmd = c
  /\ pc = "done"
  /\ output = <<>>
  /\ output' = message
  /\ UNCHANGED <<cmd, pc, log, result, retryVars, providerVars,
                 instance_id, public_ip, my_ip, security_group, calls>>

\* cli.py:20-21
start ==
  Echo("start", <<"Started instance ", instance_name, " (", result.value[1], ") at ",
                  result.value[2]>>)

\* cli.py:32-33
stop == Echo("stop", <<"Stopped instance ", instance_name, " (", result.value, ")">>)

\* cli.py:44-45
status ==
  Echo("status", <<"Instance ", instance_name, " is ", result.value[1], " at IP ",
                   result.value[2]>>)

\* cli.py:57-58
reboot == Echo("reboot", <<"Rebooted instance ", instance_name, " (", result.value, ")">>)

(* ----------------------------- the provider ---------------------------- *)

Running == pc \notin {"done", "raised"} /\ cmd \in {"start", "stop", "status", "reboot"}

\* a pending instance reaches running, a stopping one reaches stopped
provider_progress ==
  /\ Running
  /\ instState \in {"pending", "stopping"}
  /\ instState' = IF instState = "pending" THEN "running" ELSE "stopped"
  /\ UNCHANGED <<cmd, pc, log, result, retryVars, response, publicIp, rules, localVars>>

\* a running instance gets its public IP some time after it is running
provider_assign_ip ==
  /\ Running
  /\ instState = "running"
  /\ publicIp = None
  /\ publicIp' = PublicIpValue
  /\ UNCHANGED <<cmd, pc, log, result, retryVars, response, instState, rules, localVars>>

\* somebody else stops or starts the instance while the command runs
provider_other_user ==
  /\ Running
  /\ \/ instState = "running" /\ instState' = "stopping" /\ publicIp' = None
     \/ instState = "stopped" /\ instState' = "pending" /\ publicIp' = publicIp
  /\ UNCHANGED <<cmd, pc, log, result, retryVars, response, rules, localVars>>

(* --------------------------- the specification ------------------------- *)

Cmds == {"retry", "start", "stop", "status", "reboot", "authorize"}

entry(c) ==
  CASE c = "retry" -> "wrapped"
    [] c = "start" -> "start_instance"
    [] c = "stop" -> "stop_instance"
    [] c = "status" -> "get_instance_status"
    [] c = "reboot" -> "reboot_instance"
    [] c = "authorize" -> "authorize_ingress"

\* what describe_instances can answer: an error, or the reservations that
\* hold the instances tagged with the name
Responses ==
  {[err |-> TRUE, Reservations |-> <<>>]} \cup
  {[err |-> FALSE, Reservations |-> r] :
     r \in {<<>>, <<<<InstanceIds[1]>>>>, <<<<InstanceIds[1]>>, <<InstanceIds[2]>>>>,
            <<<<InstanceIds[1], InstanceIds[2]>>>>}}

Init ==
  /\ cmd \in Cmds
  /\ pc = entry(cmd)
  /\ log = <<>>
  /\ result = [kind |-> "none", value |-> None]
  /\ delays \in (IF cmd = "retry" THEN SeqsUpTo(0..MaxDelay, MaxDelays) ELSE {default_delays})
  /\ idx = 1
  /\ problems = <<>>
  /\ response \in (IF cmd \in {"retry", "authorize"}
                     THEN {[err |-> FALSE, Reservations |-> <<>>]} ELSE Responses)
  /\ instState \in (IF cmd \in {"retry", "authorize"} THEN {"stopped"} ELSE States)
  /\ publicIp \in (IF instState = "running" THEN {None, PublicIpValue} ELSE {None})
  /\ rules \in (IF cmd \in {"start", "authorize"}
                  THEN {<<>>} \cup {<<ip_permissions(ip)>> : ip \in CallerIps} ELSE {<<>>})
  /\ instance_id = None
  /\ public_ip = None
  /\ my_ip \in (IF cmd \in {"start", "authorize"} THEN CallerIps ELSE {None})
  /\ security_group \in (IF cmd = "authorize" THEN {None, GroupId} ELSE {None})
  /\ calls = 0
  /\ output = <<>>

Next ==
  \/ wrapped_attempt
  \/ wrapped_sleep
  \/ start_instance_resolve
  \/ start_instance_start
  \/ start_instance_wait
  \/ start_instance_authorize
  \/ stop_instance_resolve
  \/ stop_instance_stop
  \/ stop_instance_wait
  \/ get_instance_status_resolve
  \/ get_instance_status_state
  \/ get_instance_status_return
  \/ reboot_instance_resolve
  \/ reboot_instance_reboot
  \/ authorize_ingress_call
  \/ start
  \/ stop
  \/ status
  \/ reboot
  \/ provider_progress
  \/ provider_assign_ip
  \/ provider_other_user

Spec == Init /\ [][Next]_vars

\* the steps of start_instance and get_instance_status that follow the
\* name resolution and the provider's waits: plain sequential code, each
\* call and each sleep comes back
PollingSteps ==
  \/ start_instance_authorize
  \/ get_instance_status_state
  \/ wrapped_attempt
  \/ wrapped_sleep
  \/ get_instance_status_return

\* the program keeps running: a step that can be taken is taken
FairSpec == Spec /\ WF_vars(PollingSteps)

TypeOK ==
  /\ cmd \in Cmds
  /\ result.kind \in {"none", "return", "raise"}
  /\ idx \in 1..(Len(delays) + 1)
  /\ instState \in States

(* ------------------------------ properties ----------------------------- *)

\* the calls of the generic wrapped function so far, each with its outcome
Calls == SelectOp(log, "call")

\* a failure the except clause catches and that is not a 403
Retryable(out) ==
  out.kind = "raise" /\ out.value.caught /\ ~(out.value.hasCode /\ out.value.code = 403)

AllRetryable(cs, n) == \A j \in 1..n : Retryable(cs[j].arg)

Last(l) == l[Len(l)]

\* C1: when the function fails k times (caught, not 403) with k <= len(D)
\* and then succeeds, the wrapper has called it exactly k+1 times, has
\* returned the value of that call, and calls it no more; and after k such
\* failures with k <= len(D) the wrapper has not given up.
C1_SuccessAfterKFailures ==
  cmd = "retry" =>
    /\ \A i \in 1..Len(Calls) :
         (Calls[i].arg.kind = "return" /\ AllRetryable(Calls, i - 1)) =>
           /\ i - 1 <= Len(delays)
           /\ Len(Calls) = i
           /\ Last(log) = Calls[i]
           /\ pc = "done"
           /\ result = Returned(Calls[i].arg.value)
    /\ (AllRetryable(Calls, Len(Calls)) /\ Len(Calls) <= Len(delays)) =>
           pc \in {"wrapped", "sleep"}

\* two failures, then the third call succeeds
C1_Witness ==
  /\ cmd = "retry"
  /\ pc = "done"
  /\ Len(Calls) = 3
  /\ AllRetryable(Calls, 2)
  /\ result = Returned("v2")

\* C2: a call that fails with an error whose code is 403 is the last thing
\* the wrapper does: no call, sleep or report follows, whatever delays
\* remain, and the wrapper raises that error.
C2_NoRetryOn403 ==
  cmd = "retry" =>
    \A i \in 1..Len(log) :
      (/\ log[i].op = "call"
       /\ log[i].arg.kind = "raise"
       /\ log[i].arg.value.hasCode
       /\ log[i].arg.value.code = 403) =>
         /\ i = Len(log)
         /\ pc = "raised"
         /\ result = Raised(log[i].arg.value)

\* a caught 403 at the second attempt with a delay still left
C2_Witness ==
  /\ cmd = "retry"
  /\ pc = "raised"
  /\ Len(Calls) = 2
  /\ Len(delays) = 2
  /\ Calls[2].arg.kind = "raise"
  /\ Calls[2].arg.value.caught
  /\ Calls[2].arg.value.code = 403

\* C3: when all len(D)+1 calls fail (caught, not 403), the wrapper has
\* called the function exactly len(D)+1 times, has made one terminal report
\* that lists all the failures in order, and raises the last failure; it
\* never calls more than len(D)+1 times.
C3_Exhaustion ==
  cmd = "retry" =>
    /\ Len(Calls) <= Len(delays) + 1
    /\ (Len(Calls) = Len(delays) + 1 /\ AllRetryable(Calls, Len(Calls))) =>
         /\ pc = "raised"
         /\ result = Raised(Last(Calls).arg.value)
         /\ Last(log) = Ev("report", [final |-> TRUE,
                                      problems |-> [j \in 1..Len(Calls) |-> Calls[j].arg.value],
                                      delay |-> -1])
         /\ Cardinality({i \in 1..Len(log) : log[i].op = "report" /\ log[i].arg.final}) = 1

\* a schedule of two delays and three failures
C3_Witness ==
  /\ cmd = "retry"
  /\ pc = "raised"
  /\ Len(delays) = 2
  /\ Len(Calls) = 3
  /\ AllRetryable(Calls, 3)

\* the reads of instance.public_ip_address so far, each with the value read
Fetches == SelectOp(log, "ip_fetch")

\* the positions of the events of one kind in the log
Pos(o) == {i \in 1..Len(log) : log[i].op = o}

\* the name is the tag of exactly one instance
ResolvesUniquely ==
  /\ ~response.err
  /\ Len(response.Reservations) = 1
  /\ Len(response.Reservations[1]) = 1

\* C4: start on a name that resolves uniquely, whose public IP is absent
\* for k polls (k <= 6) and present at poll k+1, returns (instance id, that
\* IP) after exactly k+1 fetches; while the IP has been absent for at most
\* 6 polls start has not given up.
C4_StartReturnsAfterKPlus1Fetches ==
  (cmd = "start" /\ ResolvesUniquely) =>
    /\ \A i \in 1..Len(Fetches) :
         (Fetches[i].arg # None /\ \A j \in 1..(i - 1) : Fetches[j].arg = None) =>
           /\ i - 1 <= 6
           /\ Len(Fetches) = i
           /\ pc = "done"
           /\ result = Returned(<<response.Reservations[1][1], Fetches[i].arg>>)
    /\ (/\ Len(Fetches) \in 1..6
        /\ \A j \in 1..Len(Fetches) : Fetches[j].arg = None) => pc \in {"wrapped", "sleep"}

\* absent for 2 polls, then 203.0.113.5: ("i-0123", "203.0.113.5") after 3 fetches
C4_Witness ==
  /\ cmd = "start"
  /\ ResolvesUniquely
  /\ pc = "done"
  /\ Len(Fetches) = 3
  /\ Fetches[1].arg = None /\ Fetches[2].arg = None
  /\ result = Returned(<<"i-0123", "203.0.113.5">>)

RECURSIVE Matches(_)
\* the number of instances in a list of reservations
Matches(rs) == IF rs = <<>> THEN 0 ELSE Len(rs[1]) + Matches(Tail(rs))

LifecycleCmds == {"start", "stop", "status", "reboot"}

NullResult == IF cmd \in {"start", "status"} THEN Returned(<<None, None>>) ELSE Returned(None)

\* C5: in start, stop, status and reboot, when the name matches no instance
\* or more than one, the operation returns a null identifier and its only
\* provider call is the name query.
C5_NoSideEffectsOnFailedResolution ==
  (/\ cmd \in LifecycleCmds
   /\ ~response.err
   /\ Matches(response.Reservations) # 1
   /\ Len(log) >= 1) =>
     /\ pc = "done"
     /\ result = NullResult
     /\ Ops(log) = {"describe_instances"}

\* whenever the locator gives None, the operation returns the null result
\* and its only provider call is the name query
NoSideEffectsWhenLocatorGivesNone ==
  (/\ cmd \in LifecycleCmds
   /\ get_ec2_instance_id_by_name(response) = None
   /\ Len(log) >= 1) =>
     /\ pc = "done"
     /\ result = NullResult
     /\ Ops(log) = {"describe_instances"}

\* C6: the locator gives None when the name matches no instance, the id of
\* the instance when it matches exactly one, and None when it matches more
\* than one.
C6_LocatorUniqueMatchOnly ==
  (cmd \in LifecycleCmds /\ ~response.err /\ Len(log) >= 1) =>
    instance_id = IF Matches(response.Reservations) = 1
                    THEN response.Reservations[1][1]
                    ELSE None

\* the reads of instance.state so far
StateReads == SelectOp(log, "state")

\* C7: status on an instance the provider reports as stopped returns
\* ("stopped", "0.0.0.0") and has made no public-IP fetch, sleep or report.
C7_StoppedShortCircuit ==
  (cmd = "status" /\ Len(StateReads) >= 1 /\ StateReads[1].arg = "stopped") =>
    /\ pc = "done"
    /\ result = Returned(<<"stopped", "0.0.0.0">>)
    /\ Ops(log) \cap {"ip_fetch", "sleep", "report"} = {}
    /\ Len(StateReads) = 1

\* status has read the state stopped
C7_Witness ==
  /\ cmd = "status"
  /\ Len(StateReads) = 1
  /\ StateReads[1].arg = "stopped"
  /\ pc = "done"

\* C8: in start, once the name is resolved: the wait for running comes
\* after the start command, the one authorizer call (with the caller's IP)
\* after the wait, every public-IP fetch after the authorizer call has
\* returned; and what start returns is (instance id, public IP).
C8_StartOrder ==
  (cmd = "start" /\ instance_id # None) =>
    /\ \A w \in Pos("wait_until_running") : \E s \in Pos("start") : s < w
    /\ \A a \in Pos("authorize_ingress") :
         /\ \E w \in Pos("wait_until_running") : w < a
         /\ log[a].arg.perm = [IpProtocol |-> "tcp", FromPort |-> 22, ToPort |-> 22,
                               CidrIp |-> <<my_ip, 32>>]
    /\ Cardinality(Pos("authorize_ingress")) <= 1
    /\ \A f \in Pos("ip_fetch") :
         \E a \in Pos("authorize_ingress") :
           a < f /\ log[a].arg.reply \in {"ok", "InvalidPermission.Duplicate"}
    /\ (pc = "done") =>
         /\ Fetches # <<>>
         /\ Last(Fetches).arg # None
         /\ result = Returned(<<instance_id, Last(Fetches).arg>>)

\* start has returned after adding the rule and fetching the IP
C8_Witness ==
  /\ cmd = "start"
  /\ instance_id # None
  /\ pc = "done"
  /\ \E a \in Pos("authorize_ingress") : log[a].arg.reply = "ok"
  /\ Len(Fetches) >= 1

\* how often a permission is among the rules
Count(rs, perm) == Cardinality({i \in 1..Len(rs) : rs[i] = perm})

\* C9: the authorizer called again and again with the same security group
\* and IP never raises the provider's duplicate signal: a call the provider
\* answers with ok or with the duplicate signal returns, and after a call
\* has returned the rule (tcp, 22, IP/32) is among the rules exactly once.
C9_AuthorizerIdempotent ==
  (cmd = "authorize" /\ security_group # None) =>
    /\ (log # <<>> /\ Last(log).arg.reply \in {"ok", "InvalidPermission.Duplicate"}) =>
         /\ result.kind = "return"
         /\ calls = Len(log)
    /\ ~(result.kind = "raise" /\ result.value.errcode = "InvalidPermission.Duplicate")
    /\ calls >= 1 =>
         Count(rules, [IpProtocol |-> "tcp", FromPort |-> 22, ToPort |-> 22,
                       CidrIp |-> <<my_ip, 32>>]) = 1

\* two calls, the second answered with the duplicate signal
C9_Witness ==
  /\ cmd = "authorize"
  /\ security_group # None
  /\ calls = 2
  /\ Len(log) = 2
  /\ log[1].arg.reply = "ok"
  /\ log[2].arg.reply = "InvalidPermission.Duplicate"
  /\ pc = "done"

\* C10: an authorizer call the provider refuses with an error other than
\* the duplicate signal raises that error; in start nothing follows it: no
\* public-IP fetch, no result.
C10_OtherErrorPropagates ==
  \A i \in Pos("authorize_ingress") :
    log[i].arg.reply \notin {"ok", "InvalidPermission.Duplicate"} =>
      /\ i = Len(log)
      /\ pc = "raised"
      /\ result = Raised([type |-> "ClientError", errcode |-> log[i].arg.reply])
      /\ Fetches = <<>>

\* start stopped at the authorizer
C10_Witness ==
  /\ cmd = "start"
  /\ pc = "raised"
  /\ Pos("authorize_ingress") # {}
  /\ Last(log).op = "authorize_ingress"
  /\ Last(log).arg.reply = "UnauthorizedOperation"

\* C11: a call of the authorizer without a security group makes no provider
\* call, leaves the rules as they are and returns (None) instead of raising.
C11_NoSecurityGroupIsNoOp ==
  [][(cmd = "authorize" /\ security_group = None /\ pc = "authorize_ingress") =>
       /\ log' = log
       /\ log' = <<>>
       /\ rules' = rules
       /\ pc' # "raised"
       /\ result' = Returned(None)
       /\ calls' = calls + 1]_vars

\* two calls without a security group have returned, the rules still there
C11_Witness ==
  /\ cmd = "authorize"
  /\ security_group = None
  /\ calls = 2
  /\ pc = "done"
  /\ result = Returned(None)
  /\ log = <<>>
  /\ rules # <<>>

\* C12: stop on a name that resolves issues the stop command, then waits
\* until the provider reports stopped, then returns the instance id: when
\* it has returned the wait has completed and the instance is stopped; it
\* never fetches the public IP, never runs the retry wrapper and never
\* calls the authorizer.
C12_StopWaitsThenReturns ==
  cmd = "stop" =>
    /\ Ops(log) \cap {"ip_fetch", "call", "sleep", "report", "authorize_ingress"} = {}
    /\ (instance_id # None /\ pc = "done") =>
         /\ [i \in 1..Len(log) |-> log[i].op] =
              <<"describe_instances", "stop", "wait_until_stopped">>
         /\ log[2].arg = instance_id
         /\ instState = "stopped"
         /\ result = Returned(instance_id)
    /\ \A w \in Pos("wait_until_stopped") : \E c \in Pos("stop") : c < w

\* stop has returned the id
C12_Witness ==
  /\ cmd = "stop"
  /\ pc = "done"
  /\ result = Returned("i-0123")
  /\ Pos("wait_until_stopped") = {3}

\* C13: reboot on a name that resolves issues exactly one reboot command
\* and returns the instance id with no wait and no public-IP fetch,
\* whatever state the instance is in.
C13_RebootReturnsImmediately ==
  cmd = "reboot" =>
    /\ Ops(log) \subseteq {"describe_instances", "reboot"}
    /\ Cardinality(Pos("reboot")) <= 1
    /\ (instance_id # None /\ pc = "done") =>
         /\ log = <<Ev("describe_instances", FALSE), Ev("reboot", instance_id)>>
         /\ result = Returned(instance_id)
    /\ (pc = "instance.reboot") => ENABLED reboot_instance_reboot

\* reboot has returned while the instance is still pending
C13_Witness ==
  /\ cmd = "reboot"
  /\ pc = "done"
  /\ result = Returned("i-0123")
  /\ Pos("reboot") = {2}
  /\ instState = "pending"

\* the sleeps so far
Sleeps == SelectOp(log, "sleep")

\* C14: with a schedule D of length m, the i-th failed call (i <= m, caught,
\* not 403) is followed by the report of that failure with the i-th delay
\* of D, then by a sleep of exactly that delay, then by call i+1; the
\* sleeps take the delays of D in order, and no sleep follows a successful
\* call, a call that is not retried or the final call m+1.
C14_ReportSleepRetry ==
  cmd = "retry" =>
    /\ Len(Sleeps) <= Len(delays)
    /\ \A j \in 1..Len(Sleeps) : Sleeps[j].arg = delays[j]
    /\ \A p \in Pos("call") :
         LET i == Cardinality({q \in Pos("call") : q <= p})
         IN IF Retryable(log[p].arg) /\ i <= Len(delays)
              THEN /\ Len(log) >= p + 1
                   /\ log[p + 1].op = "report"
                   /\ log[p + 1].arg = [final |-> FALSE, problems |-> <<log[p].arg.value>>,
                                         delay |-> delays[i]]
                   /\ (Len(log) = p + 1) => pc = "sleep"
                   /\ (Len(log) >= p + 2) =>
                        log[p + 2].op = "sleep" /\ log[p + 2].arg = delays[i]
                   /\ (Len(log) = p + 2) => pc = "wrapped"
                   /\ (Len(log) >= p + 3) => log[p + 3].op = "call"
              ELSE \A q \in Pos("sleep") : q < p

\* two failures slept off with the two different delays of the schedule
C14_Witness ==
  /\ cmd = "retry"
  /\ delays = <<0, 1>>
  /\ Len(Sleeps) = 2
  /\ Len(Calls) = 3
  /\ pc = "done"

\* start or status is past the name resolution and the provider's waits
PollingPhase ==
  /\ cmd \in {"start", "status"}
  /\ pc \in {"authorize", "status_state", "wrapped", "sleep", "status_return"}

\* C15: with the default schedule the public IP is fetched at most 7 times
\* in one run, after the 7th fetch the wrapper has returned or raised, and
\* start and status, once past the name resolution and the provider's
\* waits, always come to an end, whether the IP appears or not.
C15_PollingBounded ==
  /\ [](cmd \in {"start", "status"} =>
          /\ Len(Fetches) <= 7
          /\ (Len(Fetches) = 7) => pc \in {"done", "raised", "status_return"})
  /\ [](PollingPhase => <>(pc \in {"done", "raised"}))

\* the IP never appeared: start gave up after 7 fetches
C15_Witness ==
  /\ cmd = "start"
  /\ pc = "raised"
  /\ Len(Fetches) = 7
  /\ \A j \in 1..7 : Fetches[j].arg = None
  /\ Last(log).op = "report"

\* the first piece of the message a command echoes when it has started,
\* stopped, rebooted or reported an instance
SuccessOutputs == {"Started instance ", "Stopped instance ", "Rebooted instance ", "Instance "}

\* C16: in start, stop, status and reboot, when the locator finds no
\* instance (no match, or an ambiguous name), what the command echoes is
\* not its message for a started, stopped, rebooted or reported instance.
C16_NoSuchInstanceOutcome ==
  (/\ cmd \in LifecycleCmds
   /\ get_ec2_instance_id_by_name(response) = None
   /\ output # <<>>) => output[1] \notin SuccessOutputs

\* C17: status never returns the state name stopped together with an IP
\* other than 0.0.0.0, also when the provider-side state changes while
\* status runs.
C17_StoppedOnlyWithSentinelIp ==
  (cmd = "status" /\ pc = "done" /\ instance_id # None /\ result.value[1] = "stopped") =>
    result.value[2] = "0.0.0.0"

\* the rule start asks for: tcp, port 22 to 22, the caller's IP as a /32
SshRule == [IpProtocol |-> "tcp", FromPort |-> 22, ToPort |-> 22, CidrIp |-> <<my_ip, 32>>]

\* C18: of start, stop, status and reboot only start changes the rules: a
\* step that changes them is a step of start that adds the one rule (tcp,
\* 22 to 22, caller's IP/32), at most once in a run; stop, status and reboot
\* never call the authorizer, and status issues no start, stop, reboot or
\* authorize command.
C18_OnlyStartAddsOneSshRule ==
  /\ [][(cmd \in LifecycleCmds /\ rules' # rules) =>
          /\ cmd = "start"
          /\ rules' = Append(rules, SshRule)
          /\ \A a \in Pos("authorize_ingress") : log[a].arg.reply # "ok"]_vars
  /\ [](cmd \in {"stop", "status", "reboot"} => "authorize_ingress" \notin Ops(log))
  /\ [](cmd = "start" =>
          \A a \in Pos("authorize_ingress") : log[a].arg.perm = SshRule)
  /\ [](cmd = "status" =>
          Ops(log) \subseteq {"describe_instances", "state", "ip_fetch", "report", "sleep"})

\* start has added the caller's rule to a rule already there
C18_Witness ==
  /\ cmd = "start"
  /\ pc = "done"
  /\ Len(rules) = 2
  /\ rules[2] = SshRule
  /\ rules[1] # SshRule

\* C19: when the name query itself fails (permission denied or any other
\* error), the locator gives None as for a name that is not found: the
\* command returns its null result, the query is made once and no other
\* provider call follows; nothing is raised.
C19_QueryErrorIsNoResult ==
  (cmd \in LifecycleCmds /\ response.err /\ log # <<>>) =>
    /\ log = <<Ev("describe_instances", TRUE)>>
    /\ instance_id = None
    /\ pc = "done"
    /\ result = NullResult

\* stop after a failed name query has returned None
C19_Witness ==
  /\ cmd = "stop"
  /\ response.err
  /\ pc = "done"
  /\ result = Returned(None)
  /\ Len(log) = 1

\* start has let an error out: the authorizer's, or the last failure of
\* the public-IP polling
StartFailed ==
  /\ cmd = "start"
  /\ pc = "raised"
  /\ Last(log).op \in {"authorize_ingress", "report"}

\* C20: start does not compensate: when the authorizer raises or the
\* public-IP polling is exhausted the error leaves start with the start
\* command issued (and, for the polling, with the rule among the rules);
\* start never issues a stop command and never removes a rule.
C20_NoCompensation ==
  /\ [](cmd = "start" => "stop" \notin Ops(log))
  /\ [](StartFailed =>
          /\ Cardinality(Pos("start")) = 1
          /\ result.kind = "raise"
          /\ (Last(log).op = "report") =>
               /\ Len(Fetches) = 7
               /\ Count(rules, SshRule) = 1
               /\ result.value = [n |-> 7, caught |-> TRUE, hasCode |-> FALSE, code |-> 0])
  /\ [][cmd = "start" =>
          /\ Len(rules') >= Len(rules)
          /\ SubSeq(rules', 1, Len(rules)) = rules]_vars

\* the polling is exhausted after start added the rule
C20_Witness ==
  /\ StartFailed
  /\ Last(log).op = "report"
  /\ \E a \in Pos("authorize_ingress") : log[a].arg.reply = "ok"
  /\ Count(rules, SshRule) = 1

====
